---- MODULE Spec2Model ----
(***************************************************************************)
(* Pipeline orchestration engine of the calendar assistant:                *)
(*   app/core/pipeline.py      Pipeline (registry construction, run loop,  *)
(*                             next-node resolution)                       *)
(*   app/core/router.py        Router (process, route)                     *)
(*   app/core/schema/task.py   TaskContext (nodes, metadata, update_node)  *)
(*   app/pipeline/...          CalendarPipeline and its nodes              *)
(*   app/database/session.py   get_db_session                              *)
(*   app/database/repository.py GenericRepository                          *)
(*                                                                         *)
(* Node classes are modelled by their names (strings), the Python None by  *)
(* the string "None", an optional value by a sequence of length 0 or 1,    *)
(* and a dict by a function whose domain is the set of its keys.           *)
(***************************************************************************)
EXTENDS Integers, Sequences, FiniteSets, TLC

VARIABLES
    pipe,        \* the Pipeline subclass: its pipeline_schema and its router classes
    registry,    \* Pipeline.nodes, built once by _initialize_nodes
    pc,          \* position of the run: "idle", "loop", "returned", "raised"
    event,       \* task_context.event (<<>> before the run starts)
    ctx_nodes,   \* task_context.nodes
    metadata,    \* task_context.metadata
    error,       \* the error record carried by the context (<<>> when there is none)
    current,     \* current_node_class
    escaped,     \* the exception that left run (<<>> when none did)
    trace,       \* names of the nodes whose process was invoked, in order
    failed,      \* the failure that entered the except block of run: <<[node, exc, by]>>
    routed,      \* the route calls of the last step: context read, rules evaluated, result
    call,        \* the update_node calls made so far (merge specification)
    table,       \* the committed rows of the events table: id -> row
    session,     \* the SQLAlchemy session: its state and the rows its transaction sees
    ops,         \* the operations performed on the session, in order
    result,      \* what the last repository call returned (<<>> before any)
    queue,       \* the process_incoming_event tasks sent to the broker, not yet taken
    worker,      \* the process_incoming_event tasks a worker has started, in order
    runs         \* the runs in progress on one Pipeline instance: run -> its state

vars == <<pipe, registry, pc, event, ctx_nodes, metadata, error, current,
          escaped, trace, failed, routed, call, table, session, ops, result,
          queue, worker, runs>>

\* the variables of the database session
dbvars == <<table, session, ops, result>>

\* the variables of the task queue and of the interleaved runs
apivars == <<queue, worker>>

\* the variables of the pipeline
pipevars == <<pipe, registry, pc, event, ctx_nodes, metadata, error, current,
              escaped, trace, failed, routed, call>>

(***************************************************************************)
(* Bounds of the model.                                                    *)
(***************************************************************************)
MaxSteps == 6        \* node invocations per run (only a cyclic graph reaches it)
MaxCalls == 3        \* update_node calls per behaviour of the merge specification
MaxConfigs == 2      \* node_configs of a schema of the construction specification
MaxIds == 2          \* primary keys of the events table
MaxBodyCalls == 3    \* repository calls in the body of one session
MaxSessions == 2     \* sessions opened one after the other
MaxRuns == 2

(***************************************************************************)
(* Values.                                                                 *)
(***************************************************************************)
None == "None"
EmptyDict == [k \in {} |-> None]

Get(d, k, default) == IF k \in DOMAIN d THEN d[k] ELSE default

\* d[k] = v on a dict
SetItem(d, k, v) == [x \in DOMAIN d \cup {k} |-> IF x = k THEN v ELSE d[x]]

\* {**a, **b}
Merge(a, b) == [k \in DOMAIN a \cup DOMAIN b |-> IF k \in DOMAIN b THEN b[k] ELSE a[k]]

\* d.pop(k, None)
PopKeep(d, k) == d
Pop(d, k) == [x \in DOMAIN d \ {k} |-> d[x]]

\* TaskContext.update_node: self.nodes[node_name] = {**self.nodes.get(node_name, {}), **kwargs}
update_node_overwrite(n, node_name, kwargs) == SetItem(n, node_name, kwargs)
update_node(n, node_name, kwargs) ==
    SetItem(n, node_name, Merge(Get(n, node_name, EmptyDict), kwargs))

\* no session has been created yet
NoSession == [state |-> "none", rows |-> EmptyDict, body |-> "none",
              opened_on |-> EmptyDict, at_exit |-> EmptyDict, calls |-> 0, n |-> 0,
              raised |-> None]

\* The fields TaskContext declares (a pydantic BaseModel without extra="allow":
\* assigning any other attribute raises ValueError).
TaskContextFields == {"event", "nodes", "metadata"}

(***************************************************************************)
(* Pipeline schema and registry construction.                              *)
(***************************************************************************)
\* NodeConfig(node=..., connections=[...], is_router=...)
NodeConfig(node, connections, is_router) ==
    [node |-> node, connections |-> connections, is_router |-> is_router]

\* NodeConfig(node=connected_node): the field defaults
DefaultNodeConfig(node) == NodeConfig(node, <<>>, FALSE)

\* inner loop of _initialize_nodes: for connected_node in node_config.connections
RECURSIVE AddConnectionsOverwrite(_, _)
AddConnectionsOverwrite(reg, conns) ==
    IF conns = <<>> THEN reg
    ELSE AddConnectionsOverwrite(SetItem(reg, Head(conns), DefaultNodeConfig(Head(conns))),
                                 Tail(conns))

RECURSIVE AddConnections(_, _)
AddConnections(reg, conns) ==
    IF conns = <<>> THEN reg
    ELSE AddConnections(
            IF Head(conns) \notin DOMAIN reg
            THEN SetItem(reg, Head(conns), DefaultNodeConfig(Head(conns)))
            ELSE reg,
            Tail(conns))

\* outer loop of _initialize_nodes: for node_config in self.pipeline_schema.nodes
RECURSIVE InitializeFromKeepFirst(_, _)
InitializeFromKeepFirst(reg, configs) ==
    IF configs = <<>> THEN reg
    ELSE InitializeFromKeepFirst(
            AddConnections(IF Head(configs).node \in DOMAIN reg
                              /\ reg[Head(configs).node] # DefaultNodeConfig(Head(configs).node)
                           THEN reg
                           ELSE SetItem(reg, Head(configs).node, Head(configs)),
                           Head(configs).connections),
            Tail(configs))

RECURSIVE InitializeFrom(_, _)
InitializeFrom(reg, configs) ==
    IF configs = <<>> THEN reg
    ELSE InitializeFrom(
            AddConnections(SetItem(reg, Head(configs).node, Head(configs)),
                           Head(configs).connections),
            Tail(configs))

\* Pipeline.__init__: self.nodes = {}; self._initialize_nodes()
InitializeNodesWithStart(schema) ==
    InitializeFrom(SetItem(EmptyDict, schema.start, DefaultNodeConfig(schema.start)),
                   schema.nodes)
InitializeNodes(schema) == InitializeFrom(EmptyDict, schema.nodes)

(***************************************************************************)
(* Router.                                                                 *)
(***************************************************************************)
\* A RouterNode class: determine_next_node reads the response_model that the
\* node `reads` stored and returns `target` when its request_type equals `equals`.
Rule(reads, equals, target) == [reads |-> reads, equals |-> equals, target |-> target]

\* RouterNode.determine_next_node (CreateEventRouter, DeleteEventRouter)
determine_next_node(rule, n) ==
    IF n[rule.reads].response_model.request_type = rule.equals
    THEN rule.target
    ELSE None

\* The loop of Router.route over the rules not yet evaluated; `evaluated` collects
\* the rules whose determine_next_node has been called.
RECURSIVE RouteLastMatch(_, _, _, _)
RouteLastMatch(routes, fallback, n, evaluated) ==
    IF routes = <<>>
    THEN [next |-> fallback, evaluated |-> evaluated]
    ELSE LET next_node_class == determine_next_node(Head(routes), n)
         IN  RouteLastMatch(Tail(routes),
                            IF next_node_class # None THEN next_node_class ELSE fallback,
                            n, Append(evaluated, Head(routes)))

RECURSIVE RouteFrom(_, _, _, _)
RouteFrom(routes, fallback, n, evaluated) ==
    IF routes = <<>>
    THEN [next |-> fallback, evaluated |-> evaluated]
    ELSE LET next_node_class == determine_next_node(Head(routes), n)
         IN  IF next_node_class # None
             THEN [next |-> next_node_class, evaluated |-> Append(evaluated, Head(routes))]
             ELSE RouteFrom(Tail(routes), fallback, n, Append(evaluated, Head(routes)))

\* Router.route
route(router, n) == RouteFrom(router.routes, router.fallback, n, <<>>)

\* Router.process: task_context.nodes[self.node_name] = {"next_node": ...}
RouterProcessFallback(name, router, n) ==
    SetItem(n, name, [next_node |-> router.fallback])
RouterProcess(name, router, n) ==
    SetItem(n, name, [next_node |-> route(router, n).next])


(***************************************************************************)
(* Node.process: what a step can do.  An outcome is either the context's   *)
(* nodes dict as the node leaves it, or the exception its process raised.  *)
(***************************************************************************)
Ret(n) == [kind |-> "return", nodes |-> n]
Raise(cls, msg) == [kind |-> "raise", exc |-> [cls |-> cls, msg |-> msg]]

\* Exception classes of app/core/exceptions.py, and one that is outside the hierarchy
ExcClasses == {"PipelineError", "CalServiceError", "LLMServiceError", "ValidationError",
               "RuntimeError"}
ExcMessage(cls) == IF cls = "ValidationError" THEN "low confidence" ELSE "service down"

\* Statuses a node may record; the first three are not halting
Statuses == {"success", "pending", "", "failed", "blocked", "error"}
Choices == {"b", "c", "other"}

\* What an implementation of the abstract Node.process stores with
\* task_context.update_node(self.node_name, **results)
GenericResults ==
    {[status |-> s, response_model |-> [request_type |-> v]] : s \in Statuses, v \in Choices}
    \cup {[response_model |-> [request_type |-> v]] : v \in Choices}

\* Node.process of a node of a test graph: returns normally or raises
GenericOutcomes(name, n) ==
    {Ret(update_node(n, name, kw)) : kw \in GenericResults}
    \cup {Raise(c, ExcMessage(c)) : c \in ExcClasses}

(***************************************************************************)
(* The nodes of CalendarPipeline.  The LLM and the calendar service are    *)
(* external: their answers are drawn from small sets.                      *)
(***************************************************************************)
confidence_threshold == 7          \* 0.7, in tenths
ConfidenceScores == {3, 7, 9}
EventTypes == {"create_event", "update_event", "delete_event", "view_event"}
ServiceFailures == {"rate limit exceeded"}

ValidateResponses ==
    [is_safe : BOOLEAN, is_valid : BOOLEAN, confidence_score : ConfidenceScores]
ClassifyResponses ==
    [has_intent : BOOLEAN, request_type : EventTypes \cup {None},
     confidence_score : ConfidenceScores]

\* ValidateEvent.process
ValidateEventOutcomes(name, n) ==
    {Ret(SetItem(n, name,
            [response_model |-> r, usage |-> "usage",
             status |-> IF r.is_safe /\ r.is_valid
                           /\ r.confidence_score >= confidence_threshold
                        THEN "success" ELSE "blocked"])) : r \in ValidateResponses}
    \cup {Ret(SetItem(n, name, [status |-> "error", error |-> e])) : e \in ServiceFailures}

\* ClassifyEvent.process
ClassifyEventOutcomes(name, n) ==
    {Ret(SetItem(n, name,
            [response_model |-> r, usage |-> "usage",
             status |-> IF ~(r.has_intent /\ r.request_type # None
                             /\ r.confidence_score >= confidence_threshold)
                        THEN "blocked" ELSE "success",
             details |-> [has_intent |-> r.has_intent, intent_type |-> r.request_type,
                          confidence |-> r.confidence_score]])) : r \in ClassifyResponses}
    \cup {Ret(SetItem(n, name, [status |-> "error", error |-> e])) : e \in ServiceFailures}

\* ClassifyEvent.process with create_completion patched to return a response
\* that also carries is_bulk_operation, as the tests patch it
PatchedClassifyResponses ==
    [has_intent : BOOLEAN, request_type : EventTypes \cup {None},
     confidence_score : ConfidenceScores, is_bulk_operation : BOOLEAN]

PatchedClassifyEventOutcomes(name, n) ==
    {Ret(SetItem(n, name,
            [response_model |-> r, usage |-> "usage",
             status |-> IF ~(r.has_intent /\ r.request_type # None
                             /\ r.confidence_score >= confidence_threshold)
                        THEN "blocked" ELSE "success",
             details |-> [has_intent |-> r.has_intent, intent_type |-> r.request_type,
                          confidence |-> r.confidence_score]])) : r \in PatchedClassifyResponses}

\* CreateEventExtractor.process
CreateEventExtractorOutcomes(name, n) ==
    {Ret(SetItem(n, name, [response_model |-> [summary |-> "meeting"], usage |-> "usage",
                           status |-> "success"]))}
    \cup {Ret(SetItem(n, name, [status |-> "error", error |-> e])) : e \in ServiceFailures}

\* CreateEventExecutor.process
CreateEventExecutorOutcomes(name, n) ==
    LET extractor_result == Get(n, "CreateEventExtractor", EmptyDict)
    IN  IF extractor_result = EmptyDict \/ "response_model" \notin DOMAIN extractor_result
        THEN {Raise("ValidationError",
                    "Validation failed: event details could not be extracted from request")}
        ELSE {Ret(update_node(n, name, [response_model |-> [id |-> "evt"]]))}
             \cup {Raise("CalServiceError", "Google Calendar event creation failed: " \o e)
                      : e \in ServiceFailures}
             \cup {Raise("RuntimeError", e) : e \in ServiceFailures}

\* DeleteEventExtractor.process
DeleteEventExtractorOutcomes(name, n) ==
    {Ret(SetItem(n, name, [response_model |-> [event_id |-> "evt"], usage |-> "usage",
                           status |-> "success"]))}
    \cup {Ret(SetItem(n, name, [status |-> "error", error |-> e])) : e \in ServiceFailures}

\* LookupEventExtractor.process; get_context reads is_bulk_operation of the
\* classification, outside the try block
LookupEventExtractorOutcomes(name, n) ==
    IF "is_bulk_operation" \notin DOMAIN n["ClassifyEvent"].response_model
    THEN {Raise("AttributeError", "'ResponseModel' object has no attribute 'is_bulk_operation'")}
    ELSE {Ret(SetItem(n, name, [response_model |-> [event_id |-> "evt"], usage |-> "usage"]))}
         \cup {Raise("LLMServiceError", "LLM lookup extraction failed: " \o e)
                  : e \in ServiceFailures}

\* LookupEventExecutor.process; found: whether the calendar returned events
LookupEventExecutorOutcomes(name, n) ==
    LET extractor_result == Get(n, "LookupEventExtractor", EmptyDict)
    IN  IF Get(extractor_result, "status", None) # "success"
        THEN {Ret(SetItem(n, name, [status |-> "error",
                                    error |-> "Missing or failed lookup criteria"]))}
        ELSE {Ret(SetItem(n, name, [status |-> "success",
                                    response_model |-> [items |-> <<"evt">>]])),
              Ret(SetItem(n, name, [status |-> "error",
                                    error |-> "No events found matching criteria: evt"]))}
             \cup {Ret(SetItem(n, name, [status |-> "error", error |-> e]))
                      : e \in ServiceFailures}

\* DeleteEventExecutor.process
DeleteEventExecutorOutcomes(name, n) ==
    LET lookup_result == Get(n, "LookupEventExecutor", EmptyDict)
    IN  IF Get(lookup_result, "status", None) # "success"
        THEN {Ret(SetItem(n, name, [status |-> "error",
                                    error |-> "Missing or failed event lookup"]))}
        ELSE {Ret(SetItem(n, name, [status |-> "success",
                                    response_model |-> lookup_result.response_model]))}
             \cup {Ret(SetItem(n, name, [status |-> "error", error |-> e]))
                      : e \in ServiceFailures}


(***************************************************************************)
(* Pipelines: CalendarPipeline and the graphs the engine is exercised on.  *)
(***************************************************************************)
PipelineSchema(start, nodes) == [start |-> start, nodes |-> nodes]
RouterClass(routes, fallback) == [routes |-> routes, fallback |-> fallback]
NoRouters == [k \in {} |-> RouterClass(<<>>, None)]

\* RouteEvent.__init__ with CreateEventRouter and DeleteEventRouter
RouteEvent ==
    RouterClass(<<Rule("ClassifyEvent", "create_event", "CreateEventExtractor"),
                  Rule("ClassifyEvent", "delete_event", "DeleteEventExtractor")>>,
                None)

\* CalendarPipeline.pipeline_schema
CalendarPipeline ==
    [name |-> "CalendarPipeline",
     schema |-> PipelineSchema("ValidateEvent",
        <<NodeConfig("ValidateEvent", <<"ClassifyEvent">>, FALSE),
          NodeConfig("ClassifyEvent", <<"RouteEvent">>, FALSE),
          NodeConfig("RouteEvent", <<"CreateEventExtractor", "LookupEventExtractor">>, TRUE),
          NodeConfig("CreateEventExtractor", <<"CreateEventExecutor">>, FALSE),
          NodeConfig("CreateEventExecutor", <<>>, FALSE),
          NodeConfig("LookupEventExtractor", <<"LookupEventExecutor">>, FALSE),
          NodeConfig("LookupEventExecutor", <<"DeleteEventExecutor">>, FALSE),
          NodeConfig("DeleteEventExecutor", <<>>, FALSE)>>),
     routers |-> [k \in {"RouteEvent"} |-> RouteEvent]]

\* A -> B -> C
Linear ==
    [name |-> "Linear",
     schema |-> PipelineSchema("A",
        <<NodeConfig("A", <<"B">>, FALSE),
          NodeConfig("B", <<"C">>, FALSE),
          NodeConfig("C", <<>>, FALSE)>>),
     routers |-> NoRouters]

\* A -> Router -> {B, C}; the rules read what A stored: "b" selects B, "c" selects C
Branch ==
    [name |-> "Branch",
     schema |-> PipelineSchema("A",
        <<NodeConfig("A", <<"Router">>, FALSE),
          NodeConfig("Router", <<"B", "C">>, TRUE),
          NodeConfig("B", <<>>, FALSE),
          NodeConfig("C", <<>>, FALSE)>>),
     routers |-> [k \in {"Router"} |->
                    RouterClass(<<Rule("A", "b", "B"), Rule("A", "c", "C")>>, None)]]

\* A -> Router -> {B, C, F} with overlapping rules and fallback F; B continues to C
Fallback ==
    [name |-> "Fallback",
     schema |-> PipelineSchema("A",
        <<NodeConfig("A", <<"Router">>, FALSE),
          NodeConfig("Router", <<"B", "C", "F">>, TRUE),
          NodeConfig("B", <<"C">>, FALSE)>>),
     routers |-> [k \in {"Router"} |->
                    RouterClass(<<Rule("A", "b", "B"), Rule("A", "b", "C"),
                                  Rule("A", "c", "C")>>, "F")]]

\* A with two static successors, both declared only by reference
Fork ==
    [name |-> "Fork",
     schema |-> PipelineSchema("A", <<NodeConfig("A", <<"B", "C">>, FALSE)>>),
     routers |-> NoRouters]

\* A -> B -> A
Cycle ==
    [name |-> "Cycle",
     schema |-> PipelineSchema("A",
        <<NodeConfig("A", <<"B">>, FALSE),
          NodeConfig("B", <<"A">>, FALSE)>>),
     routers |-> NoRouters]

\* the start node is neither declared nor referenced
NoStart ==
    [name |-> "NoStart",
     schema |-> PipelineSchema("Z", <<NodeConfig("A", <<"B">>, FALSE)>>),
     routers |-> NoRouters]

Pipelines == {CalendarPipeline, Linear, Branch, Fallback, Fork, Cycle, NoStart}

\* ValidateEvent wired to itself: the node runs again while it records success
Revalidate ==
    [name |-> "Revalidate",
     schema |-> PipelineSchema("ValidateEvent",
        <<NodeConfig("ValidateEvent", <<"ValidateEvent">>, FALSE)>>),
     routers |-> NoRouters]

\* the lookup path as pipeline_schema wires it, entered from the classification
LookupPipeline ==
    [name |-> "LookupPipeline",
     schema |-> PipelineSchema("ClassifyEvent",
        <<NodeConfig("ClassifyEvent", <<"LookupEventExtractor">>, FALSE),
          NodeConfig("LookupEventExtractor", <<"LookupEventExecutor">>, FALSE),
          NodeConfig("LookupEventExecutor", <<"DeleteEventExecutor">>, FALSE),
          NodeConfig("DeleteEventExecutor", <<>>, FALSE)>>),
     routers |-> NoRouters]

\* the example of PipelineSchema's docstring: AnalyzeNode -> RouterNode ->
\* {ResponseNode, EscalateNode}, RouterNode declared without is_router
Support ==
    [name |-> "Support",
     schema |-> PipelineSchema("AnalyzeNode",
        <<NodeConfig("AnalyzeNode", <<"RouterNode">>, FALSE),
          NodeConfig("RouterNode", <<"ResponseNode", "EscalateNode">>, FALSE)>>),
     routers |-> [k \in {"RouterNode"} |->
                    RouterClass(<<Rule("AnalyzeNode", "b", "ResponseNode"),
                                  Rule("AnalyzeNode", "c", "EscalateNode")>>, None)]]

\* A -> Router -> {B, C}, run several times at once on one Pipeline instance
Small ==
    [name |-> "Small",
     schema |-> PipelineSchema("A",
        <<NodeConfig("A", <<"Router">>, FALSE),
          NodeConfig("Router", <<"B", "C">>, TRUE),
          NodeConfig("B", <<>>, FALSE),
          NodeConfig("C", <<>>, FALSE)>>),
     routers |-> [k \in {"Router"} |->
                    RouterClass(<<Rule("A", "b", "B"), Rule("A", "c", "C")>>, None)]]

\* the pipelines that have a router
RouterPipelines == {CalendarPipeline, Branch, Fallback, Support}

\* the pipelines made of the nodes of app/pipeline
NodePipelines == {Revalidate, LookupPipeline}

Events == {"create a meeting", "delete my meeting"}

\* Node.process of a node of a schema of the construction specification
SchemaOutcomes(name, n) ==
    {Ret(update_node(n, name, [status |-> s])) : s \in {"success", "error"}}
    \cup {Raise("PipelineError", ExcMessage("PipelineError"))}

\* Node.process of a node of Small
SmallOutcomes(name, n) ==
    {Ret(update_node(n, name, [status |-> st, response_model |-> [request_type |-> v]]))
        : st \in {"success", "error"}, v \in {"b", "c"}}
    \cup {Raise("PipelineError", ExcMessage("PipelineError"))}

\* current_node.process(task_context), dispatched on the class of the node
Outcomes(p, name, n) ==
    IF name \in DOMAIN p.routers THEN {Ret(RouterProcess(name, p.routers[name], n))}
    ELSE IF p.name = "Schema" THEN SchemaOutcomes(name, n)
    ELSE IF p.name = "Small" THEN SmallOutcomes(name, n)
    ELSE IF p.name \notin {"CalendarPipeline", "Revalidate", "LookupPipeline"}
         THEN GenericOutcomes(name, n)
    ELSE CASE name = "ValidateEvent" -> ValidateEventOutcomes(name, n)
           [] name = "ClassifyEvent" ->
                 ClassifyEventOutcomes(name, n)
                 \cup (IF p.name = "LookupPipeline"
                       THEN PatchedClassifyEventOutcomes(name, n) ELSE {})
           [] name = "CreateEventExtractor" -> CreateEventExtractorOutcomes(name, n)
           [] name = "CreateEventExecutor" -> CreateEventExecutorOutcomes(name, n)
           [] name = "DeleteEventExtractor" -> DeleteEventExtractorOutcomes(name, n)
           [] name = "LookupEventExtractor" -> LookupEventExtractorOutcomes(name, n)
           [] name = "LookupEventExecutor" -> LookupEventExecutorOutcomes(name, n)
           [] name = "DeleteEventExecutor" -> DeleteEventExecutorOutcomes(name, n)

(***************************************************************************)
(* Pipeline._get_next_node_class and Pipeline._handle_router.              *)
(***************************************************************************)
HaltingStatusesNoBlocked == {"failed", "error"}
HaltingStatusesWithEmpty == {"failed", "blocked", "error", ""}
HaltingStatuses == {"failed", "blocked", "error"}

_handle_router_first_rule(router, n) == router.routes[1].target
_handle_router(router, n) == route(router, n).next

LastConnection(connections) == connections[Len(connections)]
FirstConnection(connections) == connections[1]

_get_next_node_class_restart(p, reg, current_node_class, n) ==
    LET node_status == Get(Get(n, current_node_class, EmptyDict), "status", "")
    IN  IF node_status \in HaltingStatuses THEN None
        ELSE IF current_node_class \notin DOMAIN reg
                \/ reg[current_node_class].connections = <<>> THEN p.schema.start
        ELSE IF reg[current_node_class].is_router
             THEN _handle_router(p.routers[current_node_class], n)
        ELSE FirstConnection(reg[current_node_class].connections)
_get_next_node_class(p, reg, current_node_class, n) ==
    LET node_status == Get(Get(n, current_node_class, EmptyDict), "status", "")
    IN  IF node_status \in HaltingStatuses THEN None
        ELSE IF current_node_class \notin DOMAIN reg
                \/ reg[current_node_class].connections = <<>> THEN None
        ELSE IF reg[current_node_class].is_router
             THEN _handle_router(p.routers[current_node_class], n)
        ELSE FirstConnection(reg[current_node_class].connections)


(***************************************************************************)
(* Pipeline.run.                                                           *)
(***************************************************************************)
\* the except block of run, entered with the exception pipeline_error, and what
\* follows it: the error record is assigned to task_context.error, the registry is
\* removed from the metadata, and the context is returned.  The assignment of an
\* attribute that TaskContext does not declare raises ValueError out of the handler.
HandleError(pipeline_error, by) ==
    /\ failed' = <<[node |-> current, exc |-> pipeline_error, by |-> by]>>
    /\ IF "error" \in TaskContextFields
       THEN /\ error' = <<[type |-> "pipeline_error",
                           message |-> pipeline_error.msg,
                           node |-> current]>>
            /\ metadata' = Pop(metadata, "nodes")
            /\ pc' = "returned"
            /\ UNCHANGED escaped
       ELSE /\ escaped' = <<[cls |-> "ValueError",
                             msg |-> "\"TaskContext\" object has no field \"error\""]>>
            /\ pc' = "raised"
            /\ UNCHANGED <<error, metadata>>

\* the calls of Router.route made during the step of a router node: one by
\* process and one by _get_next_node_class on the context that process left
RouteCalls(p, reg, name, before, after) ==
    IF name \notin DOMAIN p.routers THEN <<>>
    ELSE <<[router |-> name, n |-> before, result |-> route(p.routers[name], before)]>>
         \o IF /\ Get(Get(after, name, EmptyDict), "status", "") \notin HaltingStatuses
               /\ reg[name].connections # <<>>
               /\ reg[name].is_router
            THEN <<[router |-> name, n |-> after,
                    result |-> route(p.routers[name], after)]>>
            ELSE <<>>

\* run, up to the loop: the context is created and the registry staged in it
RunStart(ev) ==
    /\ pc = "idle"
    /\ event' = <<ev>>
    /\ ctx_nodes' = EmptyDict
    /\ metadata' = [k \in {"nodes"} |-> registry]
    /\ current' = pipe.schema.start
    /\ pc' = "loop"
    /\ UNCHANGED <<pipe, registry, error, escaped, trace, failed, routed, call>>
    /\ UNCHANGED <<dbvars, apivars, runs>>

\* one iteration of the loop in which process returns: the node is instantiated
\* and processed and the next node is resolved
StepReturn ==
    /\ pc = "loop"
    /\ current # None
    /\ current \in DOMAIN registry
    /\ Len(trace) < MaxSteps
    /\ \E o \in Outcomes(pipe, current, ctx_nodes) :
          /\ o.kind = "return"
          /\ ctx_nodes' = o.nodes
          /\ current' = _get_next_node_class(pipe, registry, current, o.nodes)
          /\ routed' = RouteCalls(pipe, registry, current, ctx_nodes, o.nodes)
    /\ trace' = Append(trace, current)
    /\ UNCHANGED <<pipe, registry, pc, event, metadata, error, escaped, failed, call>>
    /\ UNCHANGED <<dbvars, apivars, runs>>

\* one iteration of the loop in which process raises
StepRaise ==
    /\ pc = "loop"
    /\ current # None
    /\ current \in DOMAIN registry
    /\ Len(trace) < MaxSteps
    /\ \E o \in Outcomes(pipe, current, ctx_nodes) :
          /\ o.kind = "raise"
          /\ HandleError(o.exc, "process")
    /\ trace' = Append(trace, current)
    /\ UNCHANGED <<pipe, registry, event, ctx_nodes, current, routed, call>>
    /\ UNCHANGED <<dbvars, apivars, runs>>

\* one iteration of the loop in which self.nodes[current_node_class] raises KeyError
ResolveFail ==
    /\ pc = "loop"
    /\ current # None
    /\ current \notin DOMAIN registry
    /\ HandleError([cls |-> "KeyError", msg |-> current], "resolve")
    /\ UNCHANGED <<pipe, registry, event, ctx_nodes, current, trace, routed, call>>
    /\ UNCHANGED <<dbvars, apivars, runs>>

\* the loop ends: the registry is removed from the metadata, the context returned
RunReturn ==
    /\ pc = "loop"
    /\ current = None
    /\ metadata' = Pop(metadata, "nodes")
    /\ pc' = "returned"
    /\ UNCHANGED <<pipe, registry, event, ctx_nodes, error, current, escaped, trace,
                   failed, routed, call>>
    /\ UNCHANGED <<dbvars, apivars, runs>>

\* a Pipeline has been constructed; no run has started
Init ==
    /\ pipe \in Pipelines
    /\ registry = InitializeNodes(pipe.schema)
    /\ pc = "idle"
    /\ event = <<>>
    /\ ctx_nodes = EmptyDict
    /\ metadata = EmptyDict
    /\ error = <<>>
    /\ current = None
    /\ escaped = <<>>
    /\ trace = <<>>
    /\ failed = <<>>
    /\ routed = <<>>
    /\ call = <<>>
    /\ table = EmptyDict
    /\ session = NoSession
    /\ ops = <<>>
    /\ result = <<>>
    /\ queue = <<>>
    /\ worker = <<>>
    /\ runs = EmptyDict

Next ==
    \/ \E ev \in Events : RunStart(ev)
    \/ StepReturn
    \/ StepRaise
    \/ ResolveFail
    \/ RunReturn

Spec == Init /\ [][Next]_vars

\* run is one sequential loop: as long as an iteration is possible it is taken
SpecLive == Init /\ [][Next]_vars /\ WF_vars(Next)


(***************************************************************************)
(* TaskContext.update_node on its own: a sequence of calls on one context. *)
(***************************************************************************)
NodeNames == {"X", "Y"}
Keys == {"a", "b"}
Values == {1, 2}
Kwargs == UNION {[ks -> Values] : ks \in SUBSET Keys}

\* task_context.update_node(node_name, **kwargs); call keeps the calls made
\* and the nodes dict each of them found
UpdateNode(node_name, kwargs) ==
    /\ Len(call) < MaxCalls
    /\ ctx_nodes' = update_node(ctx_nodes, node_name, kwargs)
    /\ call' = Append(call, [node_name |-> node_name, kwargs |-> kwargs,
                             before |-> ctx_nodes])
    /\ UNCHANGED <<pipe, registry, pc, event, metadata, error, current, escaped,
                   trace, failed, routed>>
    /\ UNCHANGED <<dbvars, apivars, runs>>

InitMerge ==
    /\ pipe = Linear
    /\ registry = InitializeNodes(pipe.schema)
    /\ pc = "idle"
    /\ event = <<>>
    /\ ctx_nodes = EmptyDict
    /\ metadata = EmptyDict
    /\ error = <<>>
    /\ current = None
    /\ escaped = <<>>
    /\ trace = <<>>
    /\ failed = <<>>
    /\ routed = <<>>
    /\ call = <<>>
    /\ table = EmptyDict
    /\ session = NoSession
    /\ ops = <<>>
    /\ result = <<>>
    /\ queue = <<>>
    /\ worker = <<>>
    /\ runs = EmptyDict

NextMerge == \E node_name \in NodeNames, kwargs \in Kwargs : UpdateNode(node_name, kwargs)

SpecMerge == InitMerge /\ [][NextMerge]_vars


(***************************************************************************)
(* Construction of a Pipeline: __init__ over a bounded family of schemas,  *)
(* followed by a run of the pipeline that was built.                       *)
(***************************************************************************)
NodeIds == {"A", "B"}               \* the identities a schema declares
RefIds == {"A", "B", "C"}           \* the identities a schema mentions

SeqUpTo(S, n) == UNION {[1..k -> S] : k \in 0..n}

\* the connections lists a declaration may carry
ConnLists == {<<>>, <<"A">>, <<"B">>, <<"C">>, <<"B", "C">>}

SchemaConfigs ==
    {NodeConfig(x, c, r) : x \in NodeIds, c \in ConnLists, r \in BOOLEAN}

Schemas ==
    {PipelineSchema(st, ns) : st \in RefIds, ns \in SeqUpTo(SchemaConfigs, MaxConfigs)}

\* a Pipeline subclass with this pipeline_schema; the classes declared with
\* is_router are Router subclasses without rules and without fallback
SchemaPipeline(schema) ==
    [name |-> "Schema",
     schema |-> schema,
     routers |-> [k \in {schema.nodes[i].node : i \in {j \in 1..Len(schema.nodes) :
                                                       schema.nodes[j].is_router}}
                    |-> RouterClass(<<>>, None)]]

\* the identities a schema declares, and those its connections lists name
Declared(schema) == {schema.nodes[i].node : i \in 1..Len(schema.nodes)}
Referenced(schema) ==
    UNION {{schema.nodes[i].connections[j] : j \in 1..Len(schema.nodes[i].connections)}
              : i \in 1..Len(schema.nodes)}

\* Pipeline.__init__: self.nodes = {}; self._initialize_nodes().  Neither
\* __init__ nor PipelineSchema validates the schema: construction always completes.
Construct ==
    /\ pc = "new"
    /\ registry' = InitializeNodes(pipe.schema)
    /\ pc' = "idle"
    /\ UNCHANGED <<pipe, event, ctx_nodes, metadata, error, current, escaped, trace,
                   failed, routed, call>>
    /\ UNCHANGED <<dbvars, apivars, runs>>

InitConstruct ==
    /\ pipe \in {SchemaPipeline(s) : s \in Schemas}
    /\ registry = EmptyDict
    /\ pc = "new"
    /\ event = <<>>
    /\ ctx_nodes = EmptyDict
    /\ metadata = EmptyDict
    /\ error = <<>>
    /\ current = None
    /\ escaped = <<>>
    /\ trace = <<>>
    /\ failed = <<>>
    /\ routed = <<>>
    /\ call = <<>>
    /\ table = EmptyDict
    /\ session = NoSession
    /\ ops = <<>>
    /\ result = <<>>
    /\ queue = <<>>
    /\ worker = <<>>
    /\ runs = EmptyDict

NextConstruct ==
    \/ Construct
    \/ \E ev \in {"create a meeting"} : RunStart(ev)
    \/ StepReturn
    \/ StepRaise
    \/ ResolveFail
    \/ RunReturn

SpecConstruct == InitConstruct /\ [][NextConstruct]_vars


(***************************************************************************)
(* get_db_session and GenericRepository: one session at a time over the    *)
(* events table.  session.rows is what the session's transaction sees:     *)
(* the committed rows with the flushed, uncommitted changes applied.        *)
(***************************************************************************)
Ids == 1..MaxIds
Row(id) == [id |-> id, workflow_type |-> "calendar_request"]

\* GenericRepository.get: query(model).filter(model.id == id).first()
get(rows, id) == IF id \in DOMAIN rows THEN <<rows[id]>> ELSE <<>>

\* GenericRepository.count
count(rows) == Cardinality(DOMAIN rows)

\* GenericRepository.create: add, flush, refresh; the row is returned
create(rows, obj) == [ret |-> obj, rows |-> SetItem(rows, obj.id, obj)]

\* GenericRepository.delete: get, then delete and flush when the row exists
delete_always_true(rows, id) == [ret |-> TRUE, rows |-> Pop(rows, id)]
delete(rows, id) ==
    IF get(rows, id) # <<>>
    THEN [ret |-> TRUE, rows |-> Pop(rows, id)]
    ELSE [ret |-> FALSE, rows |-> rows]

\* get_db_session after the yield: what it does with the session when the body
\* completed or raised (an SQLAlchemyError or another Exception); commit_ok
\* tells whether session.commit() returned or raised SQLAlchemyError
session_exit_always_commit(body, commit_ok) ==
    IF commit_ok THEN <<"commit", "close">> ELSE <<"commit", "rollback", "close">>
session_exit(body, commit_ok) ==
    IF body = "completed"
    THEN IF commit_ok THEN <<"commit", "close">> ELSE <<"commit", "rollback", "close">>
    ELSE <<"rollback", "close">>

\* the exception get_db_session raises to its caller
session_raises(body, commit_ok) ==
    IF body = "completed" /\ commit_ok THEN None
    ELSE IF body = "SQLAlchemyError" \/ body = "completed"
         THEN "HTTPException: Internal server error related to database operation"
         ELSE "HTTPException: An unexpected error occurred"

\* the effect of session operations on the table and on what the session sees
RECURSIVE Apply(_, _, _, _)
Apply(todo, tbl, rows, commit_ok) ==
    IF todo = <<>> THEN [table |-> tbl, rows |-> rows]
    ELSE CASE Head(todo) = "commit" ->
                 Apply(Tail(todo), IF commit_ok THEN rows ELSE tbl, rows, commit_ok)
           [] Head(todo) = "rollback" -> Apply(Tail(todo), tbl, tbl, commit_ok)
           [] Head(todo) = "close" -> Apply(Tail(todo), tbl, EmptyDict, commit_ok)

\* the body may call the repository
InBody == session.state = "open" /\ session.body = "running"

\* session = SessionLocal(); yield session
SessionOpen ==
    /\ session.state \in {"none", "closed"}
    /\ session.n < MaxSessions
    /\ session' = [state |-> "open", rows |-> table, body |-> "running",
                   opened_on |-> table, at_exit |-> EmptyDict, calls |-> 0,
                   n |-> session.n + 1, raised |-> None]
    /\ ops' = <<>>
    /\ result' = <<>>
    /\ UNCHANGED <<table, pipevars, apivars, runs>>

\* repository.create(obj) in the body: the primary key is the uuid4 default or
\* the key the object carries; flush raises IntegrityError on a key in use
RepoCreate(id) ==
    /\ InBody
    /\ session.calls < MaxBodyCalls
    /\ IF id \in DOMAIN session.rows
       THEN /\ session' = [session EXCEPT !.body = "SQLAlchemyError",
                                          !.calls = session.calls + 1]
            /\ ops' = ops \o <<"add", "flush">>
            /\ result' = <<[op |-> "create", id |-> id, raised |-> TRUE,
                            before |-> session.rows]>>
       ELSE /\ session' = [session EXCEPT !.rows = create(session.rows, Row(id)).rows,
                                          !.calls = session.calls + 1]
            /\ ops' = ops \o <<"add", "flush", "refresh">>
            /\ result' = <<[op |-> "create", id |-> id, raised |-> FALSE,
                            ret |-> <<create(session.rows, Row(id)).ret>>,
                            before |-> session.rows]>>
    /\ UNCHANGED <<table, pipevars, apivars, runs>>

\* repository.get(id) in the body
RepoGet(id) ==
    /\ InBody
    /\ session.calls < MaxBodyCalls
    /\ session' = [session EXCEPT !.calls = session.calls + 1]
    /\ ops' = Append(ops, "query")
    /\ result' = <<[op |-> "get", id |-> id, raised |-> FALSE,
                    ret |-> get(session.rows, id), before |-> session.rows]>>
    /\ UNCHANGED <<table, pipevars, apivars, runs>>

\* repository.delete(id) in the body
RepoDelete(id) ==
    /\ InBody
    /\ session.calls < MaxBodyCalls
    /\ session' = [session EXCEPT !.rows = delete(session.rows, id).rows,
                                  !.calls = session.calls + 1]
    /\ ops' = ops \o (IF get(session.rows, id) # <<>>
                      THEN <<"query", "delete", "flush">> ELSE <<"query">>)
    /\ result' = <<[op |-> "delete", id |-> id, raised |-> FALSE,
                    ret |-> delete(session.rows, id).ret, before |-> session.rows]>>
    /\ UNCHANGED <<table, pipevars, apivars, runs>>

\* repository.count() in the body
RepoCount ==
    /\ InBody
    /\ session.calls < MaxBodyCalls
    /\ session' = [session EXCEPT !.calls = session.calls + 1]
    /\ ops' = Append(ops, "query")
    /\ result' = <<[op |-> "count", id |-> 0, raised |-> FALSE,
                    ret |-> count(session.rows), before |-> session.rows]>>
    /\ UNCHANGED <<table, pipevars, apivars, runs>>

\* the body completes
BodyReturn ==
    /\ InBody
    /\ session' = [session EXCEPT !.body = "completed"]
    /\ UNCHANGED <<table, ops, result, pipevars, apivars, runs>>

\* the body raises an exception that is not an SQLAlchemyError
BodyRaise ==
    /\ InBody
    /\ session' = [session EXCEPT !.body = "Exception"]
    /\ UNCHANGED <<table, ops, result, pipevars, apivars, runs>>

\* get_db_session resumes after the yield: commit or rollback, then close
SessionExit ==
    /\ session.state = "open"
    /\ session.body # "running"
    /\ \E commit_ok \in BOOLEAN :
          LET todo == session_exit(session.body, commit_ok)
              after == Apply(todo, table, session.rows, commit_ok)
          IN  /\ table' = after.table
              /\ session' = [session EXCEPT !.state = "closed", !.rows = after.rows,
                                            !.at_exit = session.rows,
                                            !.raised = session_raises(session.body,
                                                                      commit_ok)]
              /\ ops' = ops \o todo
    /\ UNCHANGED <<result, pipevars, apivars, runs>>

InitDb ==
    /\ pipe = Linear
    /\ registry = InitializeNodes(pipe.schema)
    /\ pc = "idle"
    /\ event = <<>>
    /\ ctx_nodes = EmptyDict
    /\ metadata = EmptyDict
    /\ error = <<>>
    /\ current = None
    /\ escaped = <<>>
    /\ trace = <<>>
    /\ failed = <<>>
    /\ routed = <<>>
    /\ call = <<>>
    /\ table = EmptyDict
    /\ session = NoSession
    /\ ops = <<>>
    /\ result = <<>>
    /\ queue = <<>>
    /\ worker = <<>>
    /\ runs = EmptyDict

NextDb ==
    \/ SessionOpen
    \/ \E id \in Ids : RepoCreate(id)
    \/ \E id \in Ids : RepoGet(id)
    \/ \E id \in Ids : RepoDelete(id)
    \/ RepoCount
    \/ BodyReturn
    \/ BodyRaise
    \/ SessionExit

SpecDb == InitDb /\ [][NextDb]_vars


(***************************************************************************)
(* Several runs at once on one Pipeline instance.  Each call of run has    *)
(* its own locals (task_context, current_node_class, current_node); the    *)
(* instance's self.nodes is the one object they all read, and each         *)
(* context's metadata["nodes"] refers to that same object until it is      *)
(* popped.  A run is a record of its locals; a step of a run yields the    *)
(* run and the registry as the step leaves them.                           *)
(***************************************************************************)
RunIds == 1..MaxRuns

\* a call of run that has not started
IdleRun == [pc |-> "idle", event |-> <<>>, nodes |-> EmptyDict, metadata |-> EmptyDict,
            current |-> None, trace |-> <<>>, error |-> <<>>, escaped |-> <<>>]

\* task_context.metadata.pop("nodes", None): the key leaves the context's
\* metadata; the dict it referred to, self.nodes, is not touched
release_nodes_clear(md, reg) == [metadata |-> Pop(md, "nodes"), registry |-> EmptyDict]
release_nodes(md, reg) == [metadata |-> Pop(md, "nodes"), registry |-> reg]

\* run up to the loop
run_start(p, reg, r, ev) ==
    [run |-> [r EXCEPT !.pc = "loop", !.event = <<ev>>, !.nodes = EmptyDict,
                       !.metadata = [k \in {"nodes"} |-> reg],
                       !.current = p.schema.start],
     registry |-> reg]

\* the except block of run and what follows it
run_handle_error(reg, r, pipeline_error) ==
    IF "error" \in TaskContextFields
    THEN [run |-> [r EXCEPT !.error = <<[type |-> "pipeline_error",
                                         message |-> pipeline_error.msg,
                                         node |-> r.current]>>,
                            !.metadata = release_nodes(r.metadata, reg).metadata,
                            !.pc = "returned"],
          registry |-> release_nodes(r.metadata, reg).registry]
    ELSE [run |-> [r EXCEPT !.escaped = <<[cls |-> "ValueError",
                                msg |-> "\"TaskContext\" object has no field \"error\""]>>,
                            !.pc = "raised"],
          registry |-> reg]

\* one iteration of the loop of run
run_iterate(p, reg, r) ==
    IF r.current \notin DOMAIN reg
    THEN {run_handle_error(reg, r, [cls |-> "KeyError", msg |-> r.current])}
    ELSE {IF o.kind = "return"
          THEN [run |-> [r EXCEPT !.nodes = o.nodes,
                                  !.current = _get_next_node_class(p, reg, r.current,
                                                                   o.nodes),
                                  !.trace = Append(r.trace, r.current)],
                registry |-> reg]
          ELSE run_handle_error(reg, [r EXCEPT !.trace = Append(r.trace, r.current)],
                                o.exc)
             : o \in Outcomes(p, r.current, r.nodes)}

\* the loop ends: the registry is removed from the metadata, the context returned
run_return(reg, r) ==
    [run |-> [r EXCEPT !.metadata = release_nodes(r.metadata, reg).metadata,
                       !.pc = "returned"],
     registry |-> release_nodes(r.metadata, reg).registry]

\* what one step of the call r of run can lead to
run_step(p, reg, r) ==
    IF r.pc = "idle" THEN {run_start(p, reg, r, ev) : ev \in Events}
    ELSE IF r.pc = "loop" /\ r.current # None THEN run_iterate(p, reg, r)
    ELSE IF r.pc = "loop" THEN {run_return(reg, r)}
    ELSE {}

Took(i, x) ==
    /\ runs' = [runs EXCEPT ![i] = x.run]
    /\ registry' = x.registry
    /\ UNCHANGED <<pipe, pc, event, ctx_nodes, metadata, error, current, escaped, trace,
                   failed, routed, call, dbvars, apivars>>

ConcurrentStart(i) ==
    /\ runs[i].pc = "idle"
    /\ \E ev \in Events : Took(i, run_start(pipe, registry, runs[i], ev))

ConcurrentIterate(i) ==
    /\ runs[i].pc = "loop"
    /\ runs[i].current # None
    /\ \E x \in run_iterate(pipe, registry, runs[i]) : Took(i, x)

ConcurrentReturn(i) ==
    /\ runs[i].pc = "loop"
    /\ runs[i].current = None
    /\ Took(i, run_return(registry, runs[i]))

InitConcurrent ==
    /\ pipe = Small
    /\ registry = InitializeNodes(pipe.schema)
    /\ pc = "idle"
    /\ event = <<>>
    /\ ctx_nodes = EmptyDict
    /\ metadata = EmptyDict
    /\ error = <<>>
    /\ current = None
    /\ escaped = <<>>
    /\ trace = <<>>
    /\ failed = <<>>
    /\ routed = <<>>
    /\ call = <<>>
    /\ table = EmptyDict
    /\ session = NoSession
    /\ ops = <<>>
    /\ result = <<>>
    /\ queue = <<>>
    /\ worker = <<>>
    /\ runs = [i \in RunIds |-> IdleRun]

NextConcurrent ==
    \/ \E i \in RunIds : ConcurrentStart(i)
    \/ \E i \in RunIds : ConcurrentIterate(i)
    \/ \E i \in RunIds : ConcurrentReturn(i)

SpecConcurrent == InitConcurrent /\ [][NextConcurrent]_vars


(***************************************************************************)
(* The event endpoint and the worker.  A request runs handle_event inside  *)
(* the session that get_db_session yields; the dependency commits after    *)
(* the endpoint returned.  The worker is another process: it takes a task  *)
(* from the broker whenever one is there and reads the committed table.    *)
(***************************************************************************)
\* what the body of handle_event can do: both calls return, repository.create
\* raises, or celery_app.send_task raises
EndpointOutcomes == {"accepted", "create failed", "send_task failed"}

\* handle_event: repository.create(obj=event), celery_app.send_task, 202; any
\* exception becomes HTTPException(500).  The primary key is a fresh uuid4.
handle_event(id, outcome) ==
    /\ InBody
    /\ session.calls = 0
    /\ id \notin DOMAIN table
    /\ id \notin DOMAIN session.rows
    /\ \A i \in 1..Len(queue) : queue[i].event_id # id
    /\ \A i \in 1..Len(worker) : worker[i].event_id # id
    /\ CASE outcome = "accepted" ->
              /\ session' = [session EXCEPT !.rows = create(session.rows, Row(id)).rows,
                                            !.calls = 1, !.body = "completed"]
              /\ ops' = ops \o <<"add", "flush", "refresh">>
              /\ queue' = Append(queue, [task |-> "process_incoming_event",
                                         event_id |-> id])
              /\ result' = <<[op |-> "handle_event", id |-> id, status_code |-> 202]>>
         [] outcome = "create failed" ->
              /\ session' = [session EXCEPT !.calls = 1, !.body = "Exception"]
              /\ ops' = ops \o <<"add", "flush">>
              /\ queue' = queue
              /\ result' = <<[op |-> "handle_event", id |-> id, status_code |-> 500]>>
         [] outcome = "send_task failed" ->
              /\ session' = [session EXCEPT !.rows = create(session.rows, Row(id)).rows,
                                            !.calls = 1, !.body = "Exception"]
              /\ ops' = ops \o <<"add", "flush", "refresh">>
              /\ queue' = queue
              /\ result' = <<[op |-> "handle_event", id |-> id, status_code |-> 500]>>
    /\ UNCHANGED <<table, worker, pipevars, runs>>

\* process_incoming_event(event_id) on a worker: repository.get(id=event_id) in
\* the worker's own session; None raises ValueError, otherwise the pipeline runs
process_incoming_event ==
    /\ queue # <<>>
    /\ LET event_id == Head(queue).event_id
           db_event == get(table, event_id)
       IN  worker' = Append(worker,
                [event_id |-> event_id,
                 raised |-> IF db_event = <<>>
                            THEN "ValueError: Event with id not found" ELSE None])
    /\ queue' = Tail(queue)
    /\ UNCHANGED <<table, session, ops, result, pipevars, runs>>

InitApi ==
    /\ pipe = CalendarPipeline
    /\ registry = InitializeNodes(pipe.schema)
    /\ pc = "idle"
    /\ event = <<>>
    /\ ctx_nodes = EmptyDict
    /\ metadata = EmptyDict
    /\ error = <<>>
    /\ current = None
    /\ escaped = <<>>
    /\ trace = <<>>
    /\ failed = <<>>
    /\ routed = <<>>
    /\ call = <<>>
    /\ table = EmptyDict
    /\ session = NoSession
    /\ ops = <<>>
    /\ result = <<>>
    /\ queue = <<>>
    /\ worker = <<>>
    /\ runs = EmptyDict

NextApi ==
    \/ SessionOpen
    \/ \E id \in Ids, outcome \in EndpointOutcomes : handle_event(id, outcome)
    \/ SessionExit
    \/ process_incoming_event

SpecApi == InitApi /\ [][NextApi]_vars


(***************************************************************************)
(* Runs of pipelines built from the nodes of app/pipeline other than       *)
(* CalendarPipeline.  Every node of these pipelines is registered, so the  *)
(* lookup of the current node never fails.                                 *)
(***************************************************************************)
InitNodes ==
    /\ pipe \in NodePipelines
    /\ registry = InitializeNodes(pipe.schema)
    /\ pc = "idle"
    /\ event = <<>>
    /\ ctx_nodes = EmptyDict
    /\ metadata = EmptyDict
    /\ error = <<>>
    /\ current = None
    /\ escaped = <<>>
    /\ trace = <<>>
    /\ failed = <<>>
    /\ routed = <<>>
    /\ call = <<>>
    /\ table = EmptyDict
    /\ session = NoSession
    /\ ops = <<>>
    /\ result = <<>>
    /\ queue = <<>>
    /\ worker = <<>>
    /\ runs = EmptyDict

NextNodes ==
    \/ \E ev \in Events : RunStart(ev)
    \/ StepReturn
    \/ StepRaise
    \/ RunReturn

SpecNodes == InitNodes /\ [][NextNodes]_vars


(***************************************************************************)
(* Runs of the pipelines that have a router.                               *)
(***************************************************************************)
InitRouters ==
    /\ pipe \in RouterPipelines
    /\ registry = InitializeNodes(pipe.schema)
    /\ pc = "idle"
    /\ event = <<>>
    /\ ctx_nodes = EmptyDict
    /\ metadata = EmptyDict
    /\ error = <<>>
    /\ current = None
    /\ escaped = <<>>
    /\ trace = <<>>
    /\ failed = <<>>
    /\ routed = <<>>
    /\ call = <<>>
    /\ table = EmptyDict
    /\ session = NoSession
    /\ ops = <<>>
    /\ result = <<>>
    /\ queue = <<>>
    /\ worker = <<>>
    /\ runs = EmptyDict

SpecRouters == InitRouters /\ [][Next]_vars


(***************************************************************************)
(* Claims C1 - C10.                                                        *)
(***************************************************************************)

\* C1: Pipeline.run always returns a TaskContext and never lets an exception
\* escape; a node's process raising, or the lookup of the current node in the
\* registry failing, ends up recorded in the returned context's error record.
C1_RunNeverRaises ==
    /\ pc # "raised"
    /\ escaped = <<>>
    /\ failed # <<>> => pc = "returned" /\ error # <<>>

\* C2: at most one error record is written in a run; it is written when the first
\* node's process raises, its node field names that node, and no process is
\* invoked after the raise.
C2_SingleErrorRecord ==
    /\ Len(error) <= 1
    /\ (failed # <<>> /\ failed[1].by = "process") =>
          /\ error # <<>>
          /\ error[1].node = failed[1].node
          /\ trace[Len(trace)] = failed[1].node

\* C3: when the record of the node that has just been processed has status
\* "failed", "blocked" or "error", no further node is executed, whatever
\* successors the node declares; for any other status, or none, the successors
\* are consulted: the first connection of a plain node, a route result of a router.
C3_HaltingSet ==
    [][ /\ (trace' # trace /\ pc' = "loop") =>
            LET N == trace'[Len(trace')]
                status == IF N \in DOMAIN ctx_nodes' /\ "status" \in DOMAIN ctx_nodes'[N]
                          THEN ctx_nodes'[N].status ELSE ""
                connections == registry[N].connections
            IN  IF status \in {"failed", "blocked", "error"}
                THEN current' = None
                ELSE IF connections = <<>> THEN current' = None
                ELSE IF registry[N].is_router
                     THEN current' \in {r.target : r \in {pipe.routers[N].routes[i] :
                                            i \in 1..Len(pipe.routers[N].routes)}}
                                       \cup {pipe.routers[N].fallback}
                     ELSE current' = connections[1]
        /\ (pc = "loop" /\ current = None) => (trace' = trace /\ pc' = "returned")
      ]_vars

\* C3 witness: a node with a declared successor recorded "blocked" and the run
\* returned after it
C3_Witness ==
    /\ pipe.name = "Linear"
    /\ pc = "returned"
    /\ trace = <<"A">>
    /\ "status" \in DOMAIN ctx_nodes["A"]
    /\ ctx_nodes["A"].status = "blocked"

\* C4: Router.route evaluates the rules in declaration order and returns the
\* result of the first rule that yields a node; later rules are not evaluated;
\* when every rule yields nothing it returns the fallback.
C4_FirstMatch ==
    \A j \in 1..Len(routed) :
        LET c == routed[j]
            rules == pipe.routers[c.router].routes
            matches == {i \in 1..Len(rules) : determine_next_node(rules[i], c.n) # None}
        IN  IF matches = {}
            THEN /\ c.result.next = pipe.routers[c.router].fallback
                 /\ c.result.evaluated = rules
            ELSE LET first == CHOOSE i \in matches : \A k \in matches : i <= k
                 IN  /\ c.result.next = rules[first].target
                     /\ c.result.evaluated = SubSeq(rules, 1, first)

\* C4 witness: the first rule matched, a later rule that would match too was not
\* evaluated
C4_Witness ==
    /\ pipe.name = "Fallback"
    /\ Len(routed) = 2
    /\ routed[1].result.next = "B"
    /\ Len(routed[1].result.evaluated) = 1
    /\ determine_next_node(pipe.routers["Router"].routes[2], routed[1].n) = "C"

\* C5: after construction every identity reachable from the start node, through
\* static connections or through any value a router's rules or fallback can
\* return, is a key of the registry, and the run loop never fails to resolve its
\* current node.
C5_GraphCompleteness ==
    LET Succ(x) ==
            (IF x \in DOMAIN registry
             THEN {registry[x].connections[i] : i \in 1..Len(registry[x].connections)}
             ELSE {})
            \cup (IF x \in DOMAIN pipe.routers
                  THEN ({pipe.routers[x].routes[i].target :
                            i \in 1..Len(pipe.routers[x].routes)}
                        \cup {pipe.routers[x].fallback}) \ {None}
                  ELSE {})
        Step(S) == S \cup UNION {Succ(x) : x \in S}
        Reachable == Step(Step(Step(Step(Step(Step(Succ(pipe.schema.start)))))))
    IN  /\ Reachable \subseteq DOMAIN registry
        /\ failed # <<>> => failed[1].by # "resolve"

\* C6: whenever run hands a context back, after a successful and after a failed
\* run, its metadata has no "nodes" entry and holds no reference to the registry;
\* during the traversal the registry is staged there.
C6_MetadataHygiene ==
    /\ pc = "returned" =>
          /\ "nodes" \notin DOMAIN metadata
          /\ \A k \in DOMAIN metadata : metadata[k] # registry
    /\ pc = "loop" => "nodes" \in DOMAIN metadata /\ metadata["nodes"] = registry

\* C6 witness: a context handed back by a run that a node stopped
C6_Witness ==
    /\ pipe.name = "CalendarPipeline"
    /\ pc = "returned"
    /\ trace = <<"ValidateEvent">>
    /\ ctx_nodes["ValidateEvent"].status = "error"

\* C7: update_node(X, **kw) leaves nodes[X] equal to its previous record (empty
\* if absent) with exactly the keys of kw added or overwritten, and leaves the
\* records of all other identities unchanged.
C7_MergeNonDestructive ==
    call # <<>> =>
        LET c == call[Len(call)]
            X == c.node_name
            old == IF X \in DOMAIN c.before THEN c.before[X] ELSE EmptyDict
        IN  /\ DOMAIN ctx_nodes = DOMAIN c.before \cup {X}
            /\ DOMAIN ctx_nodes[X] = DOMAIN old \cup DOMAIN c.kwargs
            /\ \A k \in DOMAIN c.kwargs : ctx_nodes[X][k] = c.kwargs[k]
            /\ \A k \in DOMAIN old \ DOMAIN c.kwargs : ctx_nodes[X][k] = old[k]
            /\ \A Y \in DOMAIN c.before \ {X} : ctx_nodes[Y] = c.before[Y]

\* C7 witness: {a: 1} then {b: 2} under X gave {a: 1, b: 2}
C7_Witness ==
    /\ Len(call) = 2
    /\ call[1].node_name = "X" /\ call[1].kwargs = [a |-> 1]
    /\ call[2].node_name = "X" /\ call[2].kwargs = [b |-> 2]
    /\ ctx_nodes["X"] = [a |-> 1, b |-> 2]


\* C8: on the graph A -> B -> C, when the three nodes return normally without a
\* halting status, run executes A, B, C once each in that order, and the returned
\* context has a record for each of them and no error record.
C8_LinearSuccess ==
    pipe.name = "Linear" =>
        /\ \E k \in 0..3 : trace = SubSeq(<<"A", "B", "C">>, 1, k)
        /\ (/\ pc = "returned"
            /\ failed = <<>>
            /\ \A N \in DOMAIN ctx_nodes :
                  \/ "status" \notin DOMAIN ctx_nodes[N]
                  \/ ctx_nodes[N].status \notin {"failed", "blocked", "error"})
           => /\ trace = <<"A", "B", "C">>
              /\ DOMAIN ctx_nodes = {"A", "B", "C"}
              /\ error = <<>>

\* C8 witness: the linear run returned after A, B and C succeeded
C8_Witness ==
    /\ pipe.name = "Linear"
    /\ pc = "returned"
    /\ trace = <<"A", "B", "C">>
    /\ \A N \in {"A", "B", "C"} :
          "status" \in DOMAIN ctx_nodes[N] /\ ctx_nodes[N].status = "success"

\* C9: on the graph A -> Router -> {B, C}, when the router's rules select C, the
\* returned context has the Router's record with next_node "C" and C's record,
\* has no record for B, and B's process is never invoked.
C9_RouterBranch ==
    (/\ pipe.name = "Branch"
     /\ "A" \in DOMAIN ctx_nodes
     /\ ctx_nodes["A"].response_model.request_type = "c")
    => /\ \A i \in 1..Len(trace) : trace[i] # "B"
       /\ "B" \notin DOMAIN ctx_nodes
       /\ (/\ pc = "returned"
           /\ \/ "status" \notin DOMAIN ctx_nodes["A"]
              \/ ctx_nodes["A"].status \notin {"failed", "blocked", "error"})
          => /\ trace = <<"A", "Router", "C">>
             /\ ctx_nodes["Router"] = [next_node |-> "C"]
             /\ "C" \in DOMAIN ctx_nodes

\* C9 witness: the branch run returned through the Router and C
C9_Witness ==
    /\ pipe.name = "Branch"
    /\ pc = "returned"
    /\ trace = <<"A", "Router", "C">>
    /\ ctx_nodes["Router"].next_node = "C"
    /\ "status" \in DOMAIN ctx_nodes["C"]
    /\ ctx_nodes["C"].status = "success"

\* C10: when B's process raises a validation failure with message
\* "low confidence", run returns a context whose error record has kind
\* validation, that message and node "B", and B's successor C never executes.
C10_ValidationHalt ==
    (/\ pipe.name = "Linear"
     /\ failed # <<>>
     /\ failed[1].node = "B"
     /\ failed[1].exc = [cls |-> "ValidationError", msg |-> "low confidence"])
    => /\ \A i \in 1..Len(trace) : trace[i] # "C"
       /\ pc = "returned"
       /\ error # <<>>
       /\ error[1].type = "validation"
       /\ error[1].message = "low confidence"
       /\ error[1].node = "B"

(***************************************************************************)
(* Claims C11 - C20.                                                       *)
(***************************************************************************)

\* the declarations of identity x in a schema, by position
DeclarationsOf(schema, x) == {i \in 1..Len(schema.nodes) : schema.nodes[i].node = x}

\* C11: after _initialize_nodes every identity that appears in a connections
\* list is a registry key; an identity that is referenced but never declared
\* maps to a NodeConfig with no connections and is_router False; an identity
\* declared once keeps its declared NodeConfig, whether the declaration comes
\* before or after the first reference to it.
C11_RegistryConstruction ==
    pc # "new" =>
        /\ Referenced(pipe.schema) \subseteq DOMAIN registry
        /\ DOMAIN registry = Declared(pipe.schema) \cup Referenced(pipe.schema)
        /\ \A x \in Referenced(pipe.schema) \ Declared(pipe.schema) :
              registry[x] = [node |-> x, connections |-> <<>>, is_router |-> FALSE]
        /\ \A x \in Declared(pipe.schema) :
              Cardinality(DeclarationsOf(pipe.schema, x)) = 1 =>
                 \A i \in DeclarationsOf(pipe.schema, x) : registry[x] = pipe.schema.nodes[i]

\* C11 witness: A is declared before B refers to it, B is declared after A
\* referred to it, and both kept what they declared
C11_Witness ==
    /\ pc = "idle"
    /\ pipe.schema.nodes = <<NodeConfig("A", <<"B">>, FALSE), NodeConfig("B", <<"A">>, TRUE)>>
    /\ registry["A"].connections = <<"B">>
    /\ registry["B"].connections = <<"A">>
    /\ registry["B"].is_router

\* C12: constructing a Pipeline whose start identity is neither declared nor
\* referenced fails at construction time: the construction never completes
\* and no run is started.
C12_ConstructionFails ==
    pipe.schema.start \notin Declared(pipe.schema) \cup Referenced(pipe.schema)
    => pc = "new"

\* C12 as amended: the construction of such a Pipeline completes and leaves
\* the start identity out of the registry; the failure happens in run, where
\* the lookup of the start node raises KeyError before any node is processed.
C12_FailsAtFirstLookup ==
    (/\ pipe.schema.start \notin Declared(pipe.schema) \cup Referenced(pipe.schema)
     /\ pc # "new")
    => /\ pipe.schema.start \notin DOMAIN registry
       /\ trace = <<>>
       /\ ctx_nodes = EmptyDict
       /\ pc \in {"idle", "loop"} => failed = <<>>
       /\ pc \notin {"idle", "loop"} =>
             /\ failed = <<[node |-> pipe.schema.start,
                            exc |-> [cls |-> "KeyError", msg |-> pipe.schema.start],
                            by |-> "resolve"]>>
             /\ Len(error) + Len(escaped) = 1

\* C12 witness: the construction completed with start C unregistered, a run was
\* started and its first lookup failed
C12_Witness ==
    /\ pipe.schema.start = "C"
    /\ pipe.schema.nodes = <<NodeConfig("A", <<"B">>, FALSE)>>
    /\ DOMAIN registry = {"A", "B"}
    /\ failed # <<>>
    /\ failed[1].exc.cls = "KeyError"

\* C13: declaring the same identity twice in the nodes list is rejected as a
\* construction-time error: the construction never completes.
C13_DuplicateRejected ==
    (\E x \in Declared(pipe.schema) : Cardinality(DeclarationsOf(pipe.schema, x)) > 1)
    => pc = "new"

\* C13 as amended: a schema declaring an identity more than once is accepted;
\* the registry holds the last declaration of that identity, and the
\* identities the earlier declarations referred to stay registered.
C13_LastDeclarationWins ==
    pc # "new" =>
        \A x \in Declared(pipe.schema) :
            Cardinality(DeclarationsOf(pipe.schema, x)) > 1 =>
               LET last == CHOOSE i \in DeclarationsOf(pipe.schema, x) :
                              \A k \in DeclarationsOf(pipe.schema, x) : k <= i
               IN  /\ registry[x] = pipe.schema.nodes[last]
                   /\ \A i \in DeclarationsOf(pipe.schema, x) :
                         \A j \in 1..Len(pipe.schema.nodes[i].connections) :
                            pipe.schema.nodes[i].connections[j] \in DOMAIN registry

\* C13 witness: A was declared as a plain node leading to B and again as a
\* router without connections; the registry holds the second declaration
C13_Witness ==
    /\ pc = "idle"
    /\ pipe.schema.nodes = <<NodeConfig("A", <<"B">>, FALSE), NodeConfig("A", <<>>, TRUE)>>
    /\ registry["A"] = NodeConfig("A", <<>>, TRUE)
    /\ "B" \in DOMAIN registry

\* the collaborator operation each node of CalendarPipeline performs, as its
\* classified exception names it
ServiceError(N, e) ==
    CASE N = "ValidateEvent" ->
            [cls |-> "LLMServiceError", msg |-> "LLM validation failed: " \o e]
      [] N = "ClassifyEvent" ->
            [cls |-> "LLMServiceError", msg |-> "LLM classification failed: " \o e]
      [] N \in {"CreateEventExtractor", "DeleteEventExtractor"} ->
            [cls |-> "LLMServiceError", msg |-> "LLM extraction failed: " \o e]
      [] N = "LookupEventExtractor" ->
            [cls |-> "LLMServiceError", msg |-> "LLM lookup extraction failed: " \o e]
      [] N = "CreateEventExecutor" ->
            [cls |-> "CalServiceError", msg |-> "Google Calendar event creation failed: " \o e]
      [] N = "LookupEventExecutor" ->
            [cls |-> "CalServiceError", msg |-> "Google Calendar event lookup failed: " \o e]
      [] N = "DeleteEventExecutor" ->
            [cls |-> "CalServiceError", msg |-> "Google Calendar event deletion failed: " \o e]
      [] OTHER -> [cls |-> "PipelineError", msg |-> e]

\* the run of CalendarPipeline is over
CalendarRunEnded == pipe.name = "CalendarPipeline" /\ pc \in {"returned", "raised"}

\* C14: when the LLM completion of ValidateEvent, ClassifyEvent or an extractor,
\* or the Google Calendar call of an executor, fails during CalendarPipeline.run,
\* run raises to its caller the classified exception of that operation
\* (LLMServiceError "LLM <operation> failed: ...", CalServiceError
\* "Google Calendar <operation> failed: ...") carrying the collaborator's text.
C14_ServiceErrorRaised ==
    CalendarRunEnded =>
        /\ \A N \in DOMAIN ctx_nodes : \A e \in ServiceFailures :
              ("error" \in DOMAIN ctx_nodes[N] /\ ctx_nodes[N].error = e)
              => pc = "raised" /\ escaped = <<ServiceError(N, e)>>
        /\ (failed # <<>> /\ failed[1].exc.cls \in {"LLMServiceError", "CalServiceError"})
              => pc = "raised" /\ escaped = <<failed[1].exc>>

\* the reasons a node gives when the request cannot proceed
ValidationReasons ==
    {"Low confidence in request legitimacy", "Content contains inappropriate material",
     "Unable to determine calendar intent",
     "event lookup did not find any matching events"}

\* C15: when a node decides the request cannot proceed (validation unsafe,
\* invalid or below the confidence threshold, classification without intent, a
\* lookup without matching event), CalendarPipeline.run raises ValidationError
\* to its caller with a message "Validation failed: <reason>".
C15_ValidationErrorRaised ==
    (/\ CalendarRunEnded
     /\ \E N \in DOMAIN ctx_nodes :
           \/ "status" \in DOMAIN ctx_nodes[N] /\ ctx_nodes[N].status = "blocked"
           \/ /\ N = "LookupEventExecutor"
              /\ "error" \in DOMAIN ctx_nodes[N]
              /\ ctx_nodes[N].error = "No events found matching criteria: evt")
    => /\ pc = "raised"
       /\ escaped # <<>>
       /\ escaped[1].cls = "ValidationError"
       /\ escaped[1].msg \in {"Validation failed: " \o r : r \in ValidationReasons}

\* C16: for a request classified as delete_event, CalendarPipeline.run executes
\* ValidateEvent, ClassifyEvent, RouteEvent, LookupEventExtractor,
\* LookupEventExecutor and DeleteEventExecutor in that order; the delete is
\* reached when the lookup found events.
C16_DeleteThroughLookup ==
    (/\ pipe.name = "CalendarPipeline"
     /\ "ClassifyEvent" \in DOMAIN ctx_nodes
     /\ ctx_nodes["ClassifyEvent"].status = "success"
     /\ ctx_nodes["ClassifyEvent"].response_model.request_type = "delete_event")
    => LET order == <<"ValidateEvent", "ClassifyEvent", "RouteEvent",
                      "LookupEventExtractor", "LookupEventExecutor",
                      "DeleteEventExecutor">>
       IN  /\ \E k \in 0..6 : trace = SubSeq(order, 1, k)
           /\ pc \in {"returned", "raised"} =>
                 /\ Len(trace) >= 5
                 /\ ("LookupEventExecutor" \in DOMAIN ctx_nodes
                     /\ ctx_nodes["LookupEventExecutor"].status = "success")
                    => trace = order

\* the commit, rollback and close calls among the operations on the session
SessionOps == SelectSeq(ops, LAMBDA o : o \in {"commit", "rollback", "close"})

\* C17: for every use of get_db_session, when the body completes without an
\* exception the session is committed; when the body raises, the session is
\* rolled back and never committed; in every case the session is closed, and
\* close is the last operation on the session.
C17_SessionLifecycle ==
    /\ session.state = "open" => SessionOps = <<>>
    /\ session.state = "closed" =>
          /\ ops[Len(ops)] = "close"
          /\ Len(SelectSeq(ops, LAMBDA o : o = "close")) = 1
          /\ session.body = "completed" =>
                /\ SessionOps[1] = "commit"
                /\ session.raised = None =>
                      SessionOps = <<"commit", "close">> /\ table = session.at_exit
          /\ session.body \in {"SQLAlchemyError", "Exception"} =>
                /\ SessionOps = <<"rollback", "close">>
                /\ table = session.opened_on
                /\ session.raised # None

\* C17 witness: a body that had created a row raised; the session was rolled
\* back and closed and the row is not in the table
C17_Witness ==
    /\ session.state = "closed"
    /\ session.body = "Exception"
    /\ 1 \in DOMAIN session.at_exit
    /\ 1 \notin DOMAIN table
    /\ SessionOps = <<"rollback", "close">>

\* C18: a GenericRepository over one session behaves like a keyed set: after
\* create(obj), get(obj.id) returns that record and count() has grown by one;
\* after delete(id) returned True, get(id) returns None; delete(id) of an absent
\* id returns False and changes nothing; none of these operations commits, and
\* a rollback of the session undoes all of them.
C18_KeyedSet ==
    /\ InBody =>
          /\ "commit" \notin {ops[i] : i \in 1..Len(ops)}
          /\ table = session.opened_on
          /\ \A i \in 1..Len(result) :
                LET r == result[i]
                IN  /\ (r.op = "create" /\ ~r.raised) =>
                          /\ get(session.rows, r.id) = r.ret
                          /\ r.ret[1].id = r.id
                          /\ count(session.rows) = count(r.before) + 1
                    /\ (r.op = "delete" /\ r.ret = TRUE) =>
                          /\ get(session.rows, r.id) = <<>>
                          /\ r.id \in DOMAIN r.before
                          /\ count(session.rows) = count(r.before) - 1
                    /\ (r.op = "delete" /\ r.id \notin DOMAIN r.before) =>
                          /\ r.ret = FALSE
                          /\ session.rows = r.before
    /\ (session.state = "closed" /\ SessionOps = <<"rollback", "close">>) =>
          table = session.opened_on

\* C18 witness: a row created in this session, not committed, was deleted again
C18_Witness ==
    /\ InBody
    /\ Len(ops) > 4
    /\ result # <<>>
    /\ result[1].op = "delete"
    /\ result[1].ret = TRUE
    /\ result[1].id \notin DOMAIN table
    /\ get(session.rows, result[1].id) = <<>>

\* C19: whenever a run stops because a node failed, whether the node raised or
\* recorded a halting status ("failed", "blocked", "error") in its own record,
\* the returned context has a populated error record naming that node.
C19_ErrorRecordOnFailure ==
    /\ (failed # <<>> /\ failed[1].by = "process") =>
          /\ pc = "returned"
          /\ error # <<>>
          /\ error[1].node = failed[1].node
    /\ (/\ pc = "returned"
        /\ trace # <<>>
        /\ trace[Len(trace)] \in DOMAIN ctx_nodes
        /\ "status" \in DOMAIN ctx_nodes[trace[Len(trace)]]
        /\ ctx_nodes[trace[Len(trace)]].status \in {"failed", "blocked", "error"})
       => /\ error # <<>>
          /\ error[1].node = trace[Len(trace)]

\* C20: for a non-router node with a non-halting status and a non-empty
\* connections list the next node executed is exactly connections[0]; a
\* connection at index 1 or above is never executed as that node's successor.
C20_FirstConnectionOnly ==
    [][ /\ (trace' # trace /\ pc' = "loop") =>
            LET N == trace'[Len(trace')]
                status == IF N \in DOMAIN ctx_nodes' /\ "status" \in DOMAIN ctx_nodes'[N]
                          THEN ctx_nodes'[N].status ELSE ""
            IN  (/\ ~registry[N].is_router
                 /\ status \notin {"failed", "blocked", "error"}
                 /\ registry[N].connections # <<>>)
                => current' = registry[N].connections[1]
        /\ (trace' # trace /\ trace # <<>>) =>
            LET P == trace[Len(trace)]
            IN  (~registry[P].is_router /\ registry[P].connections # <<>>)
                => trace'[Len(trace')] = registry[P].connections[1]
      ]_vars

\* C20 witness: A declares the connections B and C; the run executed A and B and
\* returned without C
C20_Witness ==
    /\ pipe.name = "Fork"
    /\ registry["A"].connections = <<"B", "C">>
    /\ pc = "returned"
    /\ trace = <<"A", "B">>
    /\ "C" \notin DOMAIN ctx_nodes

(***************************************************************************)
(* Claims C21 - C30.                                                       *)
(***************************************************************************)

\* C21: Router.process changes only the router's own entry of context.nodes,
\* which then holds next_node, the name of the node route returned (None when
\* route returned nothing); the event, the metadata and the records of all
\* other nodes are unchanged by it.
C21_RouterProcessFrame ==
    [][ (/\ trace' # trace
         /\ pc' = "loop"
         /\ trace'[Len(trace')] \in DOMAIN pipe.routers)
        => LET N == trace'[Len(trace')]
           IN  /\ DOMAIN ctx_nodes' = DOMAIN ctx_nodes \cup {N}
               /\ \A X \in DOMAIN ctx_nodes \ {N} : ctx_nodes'[X] = ctx_nodes[X]
               /\ DOMAIN ctx_nodes'[N] = {"next_node"}
               /\ ctx_nodes'[N].next_node = routed'[1].result.next
               /\ routed'[1].n = ctx_nodes
               /\ event' = event
               /\ metadata' = metadata
      ]_vars

\* C21 witness: the router step of the branch graph left A's record in place
\* and recorded that no rule matched
C21_Witness ==
    /\ pipe.name = "Branch"
    /\ trace = <<"A", "Router">>
    /\ ctx_nodes["A"].response_model.request_type = "other"
    /\ ctx_nodes["Router"] = [next_node |-> None]
    /\ "nodes" \in DOMAIN metadata

\* C23: when a run ends with an error raised at node N, the records written
\* by the nodes that executed before N are still present and unchanged in the
\* returned context, alongside the error record.
C23_RecordsKeptOnError ==
    [][ (failed = <<>> /\ failed' # <<>>)
        => /\ pc' = "returned"
           /\ error' # <<>>
           /\ ctx_nodes' = ctx_nodes
           /\ \A i \in 1..Len(trace) : trace[i] \in DOMAIN ctx_nodes'
      ]_vars

\* C22: every node's process writes only under its own identity in
\* context.nodes and does so as a merge: after a node's step the records of all
\* other identities are unchanged, and the keys its own record already had and
\* the step did not write are still present.
C22_NodeWritesMerge ==
    [][ (trace' # trace /\ pc' = "loop")
        => LET N == trace'[Len(trace')]
           IN  /\ DOMAIN ctx_nodes' = DOMAIN ctx_nodes \cup {N}
               /\ \A X \in DOMAIN ctx_nodes \ {N} : ctx_nodes'[X] = ctx_nodes[X]
               /\ N \in DOMAIN ctx_nodes => DOMAIN ctx_nodes[N] \subseteq DOMAIN ctx_nodes'[N]
      ]_vars

\* C30: in a run where LookupEventExtractor's process returned normally, the
\* LookupEventExecutor step that follows accepts the extractor's record and
\* queries the calendar; it does not record status "error" with "Missing or
\* failed lookup criteria".
C30_LookupAcceptsExtraction ==
    (/\ "LookupEventExtractor" \in DOMAIN ctx_nodes
     /\ "LookupEventExecutor" \in DOMAIN ctx_nodes)
    => ~(/\ ctx_nodes["LookupEventExecutor"].status = "error"
         /\ ctx_nodes["LookupEventExecutor"].error = "Missing or failed lookup criteria")

\* C27: after a router step the node the executor runs next is the node the
\* router recorded as next_node in its own record, and the run ends when the
\* recorded next_node is None.
C27_RunsRecordedNextNode ==
    [][ (pc = "loop" /\ trace # <<>> /\ trace[Len(trace)] \in DOMAIN pipe.routers)
        => LET R == trace[Len(trace)]
           IN  /\ trace' # trace => trace'[Len(trace')] = ctx_nodes[R].next_node
               /\ ctx_nodes[R].next_node = None => (pc' = "returned" /\ trace' = trace)
      ]_vars

\* C28: a router never sends the run to a node outside its declared
\* connections: after a router step the node to run next is one of the
\* connections the schema declares for the router, or the run ends.
C28_WithinDeclaredConnections ==
    [][ (trace' # trace /\ pc' = "loop" /\ trace'[Len(trace')] \in DOMAIN pipe.routers)
        => LET R == trace'[Len(trace')]
           IN  \/ current' = None
               \/ \E i \in 1..Len(registry[R].connections) :
                     registry[R].connections[i] = current'
      ]_vars

\* C29: in a run of CalendarPipeline the step in which an executor calls the
\* calendar (create_event returned or failed in CreateEventExecutor, delete_event
\* returned or failed in DeleteEventExecutor) starts from a context in which
\* ValidateEvent and ClassifyEvent recorded status "success" and the operation's
\* extractor recorded a result (for deletion, LookupEventExecutor too).
MutationStep(executor) ==
    /\ pipe.name = "CalendarPipeline"
    /\ trace' # trace
    /\ trace'[Len(trace')] = executor
    /\ \/ pc' = "loop" /\ "response_model" \in DOMAIN ctx_nodes'[executor]
       \/ failed' # <<>> /\ failed'[1].exc.cls = "CalServiceError"
       \/ pc' = "loop" /\ ctx_nodes'[executor].status = "error"
                       /\ ctx_nodes'[executor].error \in ServiceFailures

RecordedSuccess(name) ==
    /\ name \in DOMAIN ctx_nodes
    /\ Get(ctx_nodes[name], "status", "") = "success"

C29_MutationAfterChecks ==
    [][ /\ MutationStep("CreateEventExecutor")
           => /\ RecordedSuccess("ValidateEvent")
              /\ RecordedSuccess("ClassifyEvent")
              /\ "CreateEventExtractor" \in DOMAIN ctx_nodes
              /\ "response_model" \in DOMAIN ctx_nodes["CreateEventExtractor"]
        /\ MutationStep("DeleteEventExecutor")
           => /\ RecordedSuccess("ValidateEvent")
              /\ RecordedSuccess("ClassifyEvent")
              /\ "LookupEventExtractor" \in DOMAIN ctx_nodes
              /\ RecordedSuccess("LookupEventExecutor")
      ]_vars

C29_Witness ==
    /\ pipe.name = "CalendarPipeline"
    /\ pc = "returned"
    /\ trace = <<"ValidateEvent", "ClassifyEvent", "RouteEvent",
                 "CreateEventExtractor", "CreateEventExecutor">>
    /\ "response_model" \in DOMAIN ctx_nodes["CreateEventExecutor"]

\* the nodes a node can hand the run to: its static connections and, for a
\* router, the targets of its rules and its fallback
Successors(p, reg, name) ==
    (IF name \in DOMAIN reg
     THEN {reg[name].connections[i] : i \in 1..Len(reg[name].connections)} ELSE {})
    \cup (IF name \in DOMAIN p.routers
          THEN {p.routers[name].routes[i].target : i \in 1..Len(p.routers[name].routes)}
               \cup ({p.routers[name].fallback} \ {None})
          ELSE {})

RECURSIVE ReachableFrom(_, _, _, _)
ReachableFrom(p, reg, frontier, seen) ==
    LET next == UNION {Successors(p, reg, x) : x \in frontier} \ seen
    IN  IF next = {} THEN seen ELSE ReachableFrom(p, reg, next, seen \cup next)

Acyclic(p, reg) ==
    \A x \in DOMAIN reg : x \notin ReachableFrom(p, reg, {x}, {})

\* C25: on a graph in which no node reaches itself (CalendarPipeline among
\* them) run terminates, whatever the nodes do, after executing each node at most
\* once; the loop has no step bound: on a graph with a cycle, a step that returns
\* with a non-halting status is always followed by another iteration.
C25_Termination ==
    /\ Acyclic(pipe, registry) => <>(pc \in {"returned", "raised"})
    /\ [](Acyclic(pipe, registry)
          => \A i, j \in 1..Len(trace) : i # j => trace[i] # trace[j])
    /\ [][ (/\ ~Acyclic(pipe, registry)
            /\ trace' # trace /\ pc' = "loop"
            /\ Get(ctx_nodes'[trace'[Len(trace')]], "status", "") \notin HaltingStatuses)
           => current' # None ]_vars

C25_CycleRuns ==
    /\ pipe.name = "Cycle"
    /\ Len(trace) = MaxSteps
    /\ pc = "loop"
    /\ current # None
    /\ \E i, j \in 1..Len(trace) : i # j /\ trace[i] = trace[j]

C25_Witness ==
    /\ pipe.name = "CalendarPipeline"
    /\ Acyclic(pipe, registry)
    /\ pc = "returned"
    /\ Len(trace) = 5
\* C26: a task is made available to the workers only once the request's session
\* has committed the event row, and every worker task that started found its
\* event row: it never raised "Event with id ... not found".
C26_TaskAfterCommit ==
    /\ \A i \in 1..Len(queue) : queue[i].event_id \in DOMAIN table
    /\ \A i \in 1..Len(worker) : worker[i].raised = None

\* C24: runs interleaved on one Pipeline instance share only the registry; no
\* step of a run changes the registry or a router's rules, a step changes the
\* state of one run only, and it is a step that run could take alone, on the
\* registry as construction left it.
C24_RunsIndependent ==
    [][ /\ registry' = registry
        /\ registry = InitializeNodes(pipe.schema)
        /\ pipe' = pipe
        /\ \E i \in RunIds :
              /\ \A j \in RunIds \ {i} : runs'[j] = runs[j]
              /\ runs'[i] \in {x.run : x \in run_step(pipe, InitializeNodes(pipe.schema),
                                                     runs[i])}
      ]_vars

C24_Witness ==
    /\ RunIds \subseteq DOMAIN runs
    /\ runs[1].pc = "returned" /\ runs[1].trace = <<"A", "Router", "B">>
    /\ runs[2].pc = "loop" /\ runs[2].trace = <<"A", "Router">>
    /\ runs[2].current = "C"
    /\ "nodes" \in DOMAIN runs[2].metadata


====
